---- MODULE Spec2Model ----
(***************************************************************************)
(* A model of dns-delay-server (src/main.go): the handler returned by      *)
(* newDNSHandler, run by the miekg/dns UDP server in one goroutine per     *)
(* inbound message, and the process-wide alternation map choiceMap.        *)
(*                                                                         *)
(* A domain name is the sequence of its labels: "cname.x." is              *)
(* <<"cname", "x">>, so strings.HasPrefix(name, "cname.") is "the first    *)
(* label is cname" and strings.TrimPrefix is Tail.  A resource record is   *)
(* [Name, Rrtype, Addr, Target]; a message is [Opcode, Question] and a     *)
(* reply [Question, Answer, Ns, Authoritative].                            *)
(***************************************************************************)
EXTENDS Integers, Sequences, FiniteSets, TLC

(***************************************************************************)
(* Bounds of the model.                                                    *)
(***************************************************************************)
MaxInvocations == 2
MaxQueries == 2
MaxAltQueries == 3
MaxDelay == 1

Slots == 1..MaxInvocations

(***************************************************************************)
(* Inputs: names, query types, opcodes, address strings.                   *)
(***************************************************************************)
CnameLabel == "cname"
Names == {<<"x">>, <<CnameLabel, "x">>}
Qtypes == {"A", "AAAA", "MX"}
OpcodeQuery == "QUERY"
Opcodes == {OpcodeQuery, "UPDATE"}

IPv4Literals == {"1.1.1.1", "2.2.2.2", "3.3.3.3", "4.4.4.4"}
IPv6Literals == {"::1", "::2", "::3", "::4"}
NotAnIP == "not-an-ip"

Q(n, t) == [Name |-> n, Qtype |-> t]
Msg(op, qs) == [Opcode |-> op, Question |-> qs]

SingleQuestions == {<<Q(n, t)>> : n \in Names, t \in Qtypes}

\* Messages the sequential specification feeds the handler: every single
\* question, no question at all, two questions, and a non-query opcode.
Messages ==
    {Msg(OpcodeQuery, qs) : qs \in SingleQuestions}
    \cup {Msg(OpcodeQuery, <<>>),
          Msg(OpcodeQuery, <<Q(<<CnameLabel, "x">>, "A"), Q(<<"x">>, "AAAA")>>),
          Msg("UPDATE", <<Q(<<"x">>, "A")>>)}

\* Messages of the alternation and concurrency specifications: one A or AAAA
\* question.
AddressMessages ==
    {Msg(OpcodeQuery, <<Q(n, t)>>) : n \in Names, t \in {"A", "AAAA"}}

(***************************************************************************)
(* Configurations (the flags of main, src/main.go:122-139).                *)
(***************************************************************************)
ASets ==
    {<<>>, <<NotAnIP>>, <<"1.1.1.1">>, <<"1.1.1.1", "2.2.2.2">>,
     <<"1.1.1.1", NotAnIP, "2.2.2.2">>, <<"::1", "1.1.1.1">>,
     <<"1.1.1.1", "2.2.2.2", "3.3.3.3">>}

\* The AAAA set mirrors the A set address by address.
Mirror(ip) ==
    CASE ip = "1.1.1.1" -> "::1"
      [] ip = "2.2.2.2" -> "::2"
      [] ip = "3.3.3.3" -> "::3"
      [] ip = "4.4.4.4" -> "::4"
      [] ip = "::1" -> "1.1.1.1"
      [] OTHER -> ip

MirrorSet(s) == [k \in 1..Len(s) |-> Mirror(s[k])]

CnameSets == {<<>>, <<"4.4.4.4">>}

Authorities == {<<>>, <<"ns1">>}

Records(a, aaaa, ca, caaaa) ==
    [A |-> a, AAAA |-> aaaa, CNAMEA |-> ca, CNAMEAAAA |-> caaaa]

Config(rec, da, daaaa, auth, alt) ==
    [records |-> rec, aDelay |-> da, aaaaDelay |-> daaaa,
     authority |-> auth, alternateRecords |-> alt]

Configs ==
    {Config(Records(a, MirrorSet(a), c, MirrorSet(c)), da, daaaa, auth, alt) :
        a \in ASets, c \in CnameSets, da \in 0..MaxDelay, daaaa \in 0..MaxDelay,
        auth \in Authorities, alt \in BOOLEAN}

TwoOfEach ==
    Records(<<"1.1.1.1", "2.2.2.2">>, <<"::1", "::2">>, <<>>, <<>>)

\* Alternation enabled, two valid addresses per type, no delay.
AltConfigs ==
    {Config(Records(<<"1.1.1.1", "2.2.2.2">>, <<"::1", "::2">>, c, MirrorSet(c)),
            0, 0, <<>>, TRUE) : c \in {<<>>, <<"4.4.4.4", "3.3.3.3">>}}

\* Concurrent invocations: two valid addresses per type, any delays.
ConcConfigs ==
    {Config(TwoOfEach, da, daaaa, <<>>, alt) :
        da \in 0..MaxDelay, daaaa \in 0..MaxDelay, alt \in BOOLEAN}

VARIABLES
    records,            \* Records, captured by the handler (main.go:134)
    aDelay,             \* --delay-a
    aaaaDelay,          \* --delay-aaaa
    authority,          \* --authority
    alternateRecords,   \* --alternate
    choiceMap,          \* var choiceMap (main.go:15): name -> counter
    inv,                \* the handler invocations (goroutines), by slot
    started,            \* number of messages dispatched so far
    replies,            \* the messages handed to w.WriteMsg, in order
    crashed             \* the process died (unrecovered panic, runtime throw)

cfgvars == <<records, aDelay, aaaaDelay, authority, alternateRecords>>
vars == <<records, aDelay, aaaaDelay, authority, alternateRecords,
          choiceMap, inv, started, replies, crashed>>

(***************************************************************************)
(* Pure helpers of the handler.                                            *)
(***************************************************************************)
\* strings.HasPrefix(q.Name, "cname.")
HasCnamePrefix(name) == Len(name) > 0 /\ name[1] = CnameLabel

\* strings.TrimPrefix(q.Name, "cname.")
TrimCnamePrefix(name) == IF HasCnamePrefix(name) THEN Tail(name) ELSE name

\* net.ParseIP: the family of a literal, "nil" when it is none.
ParseIP(ip) ==
    IF ip \in IPv4Literals THEN "v4"
    ELSE IF ip \in IPv6Literals THEN "v6"
    ELSE "nil"

RR(name, type, addr, target) ==
    [Name |-> name, Rrtype |-> type, Addr |-> addr, Target |-> target]

\* dns.NewRR("<d> <queryType> <ip>") returns an error unless the literal is of
\* the record type's family.
NewAddrRROk(queryType, ip) ==
    \/ queryType = "A" /\ ParseIP(ip) = "v4"
    \/ queryType = "AAAA" /\ ParseIP(ip) = "v6"

\* dns.NewRR("<owner> CNAME <target>") / ("<owner> NS <target>")
NewNameRROk(owner, target) == Len(target) > 0

\* Mutant: the records are prepended, not appended.
RECURSIVE BuildAnswersReversed(_, _, _)
BuildAnswersReversed(d, queryType, answers) ==
    IF answers = <<>> THEN <<>>
    ELSE LET ip == Head(answers)
             rest == BuildAnswersReversed(d, queryType, Tail(answers))
         IN IF ParseIP(ip) = "nil" \/ ~NewAddrRROk(queryType, ip) THEN rest
            ELSE rest \o <<RR(d, queryType, ip, <<>>)>>

\* The loop of lines 74-85: one record per entry that passes net.ParseIP and
\* dns.NewRR, in the order of the configured set.
RECURSIVE BuildAnswers(_, _, _)
BuildAnswers(d, queryType, answers) ==
    IF answers = <<>> THEN <<>>
    ELSE LET ip == Head(answers)
             rest == BuildAnswers(d, queryType, Tail(answers))
         IN IF ParseIP(ip) = "nil" THEN rest
            ELSE IF ~NewAddrRROk(queryType, ip) THEN rest
            ELSE <<RR(d, queryType, ip, <<>>)>> \o rest

\* Mutant: the CNAME-targeted sets are ignored.
SelectAnswersPlainOnly(rec, cname, qtype) ==
    CASE qtype = "A" -> rec.A
      [] qtype = "AAAA" -> rec.AAAA
      [] OTHER -> <<>>

\* The switch of lines 47-65: the answer set of a question.
SelectAnswers(rec, cname, qtype) ==
    CASE qtype = "A" ->
            IF cname /\ Len(rec.CNAMEA) > 0 THEN rec.CNAMEA ELSE rec.A
      [] qtype = "AAAA" ->
            IF cname /\ Len(rec.CNAMEAAAA) > 0 THEN rec.CNAMEAAAA ELSE rec.AAAA
      [] OTHER -> <<>>

\* queryType of lines 54 and 63 ("" for any other type).
QueryTypeOf(qtype) == IF qtype \in {"A", "AAAA"} THEN qtype ELSE ""

\* Mutant: a question of another type sleeps for the A delay.
SelectDelayDefaultA(qtype, da, daaaa) ==
    CASE qtype = "AAAA" -> daaaa
      [] OTHER -> da

\* delay of lines 55 and 64 (zero for any other type).
SelectDelay(qtype, da, daaaa) ==
    CASE qtype = "A" -> da
      [] qtype = "AAAA" -> daaaa
      [] OTHER -> 0

\* Lines 38-46: the CNAME record of a prefixed name, appended when dns.NewRR
\* succeeds.
CnameAnswer(name) ==
    IF HasCnamePrefix(name) /\ NewNameRROk(name, TrimCnamePrefix(name))
    THEN <<RR(name, "CNAME", "", TrimCnamePrefix(name))>>
    ELSE <<>>

\* Mutant: the index taken from the counter before its increment.
AlternationIndexBeforeIncr(counter) == (counter + 1) % 2

\* Line 92: the index into m.Answer.
AlternationIndex(counter) == counter % 2

\* Mutant: the NS record is owned by the last question's name.
AuthorityNsLastQuestion(question, auth) ==
    IF Len(auth) > 0 /\ NewNameRROk(question[Len(question)].Name, auth)
    THEN <<RR(question[Len(question)].Name, "NS", "", auth)>>
    ELSE <<>>

\* Lines 97-102: the authority section.
AuthorityNs(question, auth) ==
    IF Len(auth) > 0 /\ NewNameRROk(question[1].Name, auth)
    THEN <<RR(question[1].Name, "NS", "", auth)>>
    ELSE <<>>

\* Mutant: the authoritative flag is set when the reply is created.
SetReplyAuthoritative(r) ==
    [Question |-> r.Question, Answer |-> <<>>, Ns |-> <<>>, Authoritative |-> TRUE]

\* m.SetReply(r), lines 22-24.
SetReply(r) ==
    [Question |-> r.Question, Answer |-> <<>>, Ns |-> <<>>, Authoritative |-> FALSE]

(***************************************************************************)
(* State of one invocation.                                                *)
(***************************************************************************)
IdleInv ==
    [pc |-> "idle", seq |-> 0, r |-> Msg(OpcodeQuery, <<>>),
     m |-> SetReply(Msg(OpcodeQuery, <<>>)), qi |-> 0,
     queryType |-> "", answers |-> <<>>, cname |-> FALSE, delay |-> 0,
     slept |-> 0, waited |-> <<>>, tmp |-> 0]

\* The question the invocation is handling.
CurQ(i) == inv[i].m.Question[inv[i].qi]

\* What w.WriteMsg(m) hands to the transport, with the invocation it answers.
Sent(i, m, waited) ==
    [slot |-> i, seq |-> inv[i].seq, r |-> inv[i].r, m |-> m, waited |-> waited]

\* make(map[string]int), line 15.
EmptyMap == [n \in {} |-> 0]

InitWith(cfgs) ==
    /\ \E c \in cfgs :
        /\ records = c.records
        /\ aDelay = c.aDelay
        /\ aaaaDelay = c.aaaaDelay
        /\ authority = c.authority
        /\ alternateRecords = c.alternateRecords
    /\ choiceMap = EmptyMap
    /\ inv = [i \in Slots |-> IdleInv]
    /\ started = 0
    /\ replies = <<>>
    /\ crashed = FALSE

Init == InitWith(Configs)

(***************************************************************************)
(* The handler, lines 21-110, step by step.  A step is atomic where it     *)
(* touches only the invocation's own variables; every access to choiceMap  *)
(* is an interval (Begin .. End) during which other goroutines run.        *)
(***************************************************************************)
Set(i, f) == inv' = [inv EXCEPT ![i] = f]

\* Lines 22-30: build the reply; a non-query opcode is answered at once.
Start(i, msg) ==
    /\ ~crashed
    /\ inv[i].pc \in {"idle", "done"}
    /\ started' = started + 1
    /\ LET m == SetReply(msg)
           base == [IdleInv EXCEPT !.seq = started + 1, !.r = msg, !.m = m]
       IN IF msg.Opcode # OpcodeQuery
          THEN /\ inv' = [inv EXCEPT ![i] = [base EXCEPT !.pc = "done"]]
               /\ replies' = Append(replies,
                      [slot |-> i, seq |-> started + 1, r |-> msg, m |-> m,
                       waited |-> <<>>])
          ELSE /\ inv' = [inv EXCEPT ![i] = [base EXCEPT !.pc = "loop", !.qi = 1]]
               /\ UNCHANGED replies
    /\ UNCHANGED <<cfgvars, choiceMap, crashed>>

\* Lines 33-68: classify the question, append the CNAME record, pick the
\* answer set and the delay, and call time.Sleep(delay).
BeginQuestion(i) ==
    /\ ~crashed
    /\ inv[i].pc = "loop"
    /\ inv[i].qi <= Len(inv[i].m.Question)
    /\ LET q == CurQ(i)
           cname == HasCnamePrefix(q.Name)
       IN Set(i, [inv[i] EXCEPT
              !.pc = "sleep",
              !.cname = cname,
              !.m.Answer = inv[i].m.Answer \o CnameAnswer(q.Name),
              !.queryType = QueryTypeOf(q.Qtype),
              !.answers = SelectAnswers(records, cname, q.Qtype),
              !.delay = SelectDelay(q.Qtype, aDelay, aaaaDelay),
              !.slept = 0])
    /\ UNCHANGED <<cfgvars, choiceMap, started, replies, crashed>>

\* Mutant: time.Sleep returns at once.
SleepOverAtOnce(i) == TRUE

\* Mutant: a sleeping goroutine holds every other sleeper back (one shared
\* timer).
SleepOverForAll(i) ==
    \A j \in Slots : inv[j].pc = "sleep" => inv[j].slept >= inv[j].delay

\* time.Sleep returns once at least the duration has passed.
SleepOver(i) == inv[i].slept >= inv[i].delay

\* Time passes for the goroutines blocked in time.Sleep.
Tick ==
    /\ ~crashed
    /\ \E i \in Slots : inv[i].pc = "sleep" /\ ~SleepOver(i)
    /\ inv' = [i \in Slots |->
                 IF inv[i].pc = "sleep" /\ ~SleepOver(i)
                 THEN [inv[i] EXCEPT !.slept = @ + 1]
                 ELSE inv[i]]
    /\ UNCHANGED <<cfgvars, choiceMap, started, replies, crashed>>

\* Mutant: the alternation runs whether or not --alternate is set.
WakeAlternateAlways(i) ==
    /\ ~crashed
    /\ inv[i].pc = "sleep"
    /\ SleepOver(i)
    /\ LET q == CurQ(i)
           d == IF inv[i].cname THEN TrimCnamePrefix(q.Name) ELSE q.Name
           woke == [inv[i] EXCEPT !.waited = Append(@, inv[i].slept)]
       IN IF Len(inv[i].answers) > 0
          THEN Set(i, [woke EXCEPT
                   !.m.Answer = @ \o BuildAnswers(d, inv[i].queryType, inv[i].answers),
                   !.pc = "chk"])
          ELSE Set(i, [woke EXCEPT !.pc = "loop", !.qi = @ + 1])
    /\ UNCHANGED <<cfgvars, choiceMap, started, replies, crashed>>

\* Lines 68-87: the sleep is over; build the address records and go on to
\* the alternation, or to the next question.
Wake(i) ==
    /\ ~crashed
    /\ inv[i].pc = "sleep"
    /\ SleepOver(i)
    /\ LET q == CurQ(i)
           d == IF inv[i].cname THEN TrimCnamePrefix(q.Name) ELSE q.Name
           woke == [inv[i] EXCEPT !.waited = Append(@, inv[i].slept)]
       IN IF Len(inv[i].answers) > 0
          THEN Set(i, [woke EXCEPT
                   !.m.Answer = @ \o BuildAnswers(d, inv[i].queryType, inv[i].answers),
                   !.pc = IF alternateRecords THEN "chk" ELSE "loop",
                   !.qi = IF alternateRecords THEN @ ELSE @ + 1])
          ELSE Set(i, [woke EXCEPT !.pc = "loop", !.qi = @ + 1])
    /\ UNCHANGED <<cfgvars, choiceMap, started, replies, crashed>>

\* Mutant: one counter per name and query type.
ChoiceKeyWithType(q) == Append(q.Name, q.Qtype)

\* Lines 88-92: the key of choiceMap is q.Name, whatever the query type.
ChoiceKey(q) == q.Name

\* The goroutines inside a map operation, and those inside a map write.
InMap(i) == inv[i].pc \in {"chk_in", "ins_in", "inc_in", "rd_in"}
MapWriting(i) == inv[i].pc \in {"ins_in", "inc_in"}

\* Line 88: _, ok := choiceMap[q.Name]
CheckBegin(i) ==
    /\ ~crashed
    /\ inv[i].pc = "chk"
    /\ Set(i, [inv[i] EXCEPT !.pc = "chk_in"])
    /\ UNCHANGED <<cfgvars, choiceMap, started, replies, crashed>>

CheckEnd(i) ==
    /\ ~crashed
    /\ inv[i].pc = "chk_in"
    /\ Set(i, [inv[i] EXCEPT
           !.pc = IF ChoiceKey(CurQ(i)) \in DOMAIN choiceMap THEN "inc" ELSE "ins"])
    /\ UNCHANGED <<cfgvars, choiceMap, started, replies, crashed>>

\* The map with key k set to v.
MapAssign(map, k, v) ==
    [n \in DOMAIN map \cup {k} |-> IF n = k THEN v ELSE map[n]]

\* Line 89: choiceMap[q.Name] = 0
InsertBegin(i) ==
    /\ ~crashed
    /\ inv[i].pc = "ins"
    /\ Set(i, [inv[i] EXCEPT !.pc = "ins_in"])
    /\ UNCHANGED <<cfgvars, choiceMap, started, replies, crashed>>

InsertEnd(i) ==
    /\ ~crashed
    /\ inv[i].pc = "ins_in"
    /\ choiceMap' = MapAssign(choiceMap, ChoiceKey(CurQ(i)), 0)
    /\ Set(i, [inv[i] EXCEPT !.pc = "inc"])
    /\ UNCHANGED <<cfgvars, started, replies, crashed>>

\* The value a map read yields: the zero value for a missing key.
MapLoad(map, k) == IF k \in DOMAIN map THEN map[k] ELSE 0

\* Line 91: choiceMap[q.Name]++ reads the counter, then stores it plus one.
IncrBegin(i) ==
    /\ ~crashed
    /\ inv[i].pc = "inc"
    /\ Set(i, [inv[i] EXCEPT !.pc = "inc_in",
                             !.tmp = MapLoad(choiceMap, ChoiceKey(CurQ(i)))])
    /\ UNCHANGED <<cfgvars, choiceMap, started, replies, crashed>>

IncrEnd(i) ==
    /\ ~crashed
    /\ inv[i].pc = "inc_in"
    /\ choiceMap' = MapAssign(choiceMap, ChoiceKey(CurQ(i)), inv[i].tmp + 1)
    /\ Set(i, [inv[i] EXCEPT !.pc = "rd"])
    /\ UNCHANGED <<cfgvars, started, replies, crashed>>

\* Line 92: m.Answer = []dns.RR{m.Answer[choiceMap[q.Name]%2]}; an index
\* beyond the slice is a run-time panic, which nothing recovers.
ReadBegin(i) ==
    /\ ~crashed
    /\ inv[i].pc = "rd"
    /\ Set(i, [inv[i] EXCEPT !.pc = "rd_in"])
    /\ UNCHANGED <<cfgvars, choiceMap, started, replies, crashed>>

ReadEnd(i) ==
    /\ ~crashed
    /\ inv[i].pc = "rd_in"
    /\ LET idx == AlternationIndex(MapLoad(choiceMap, ChoiceKey(CurQ(i))))
       IN IF idx < Len(inv[i].m.Answer)
          THEN /\ Set(i, [inv[i] EXCEPT !.m.Answer = <<inv[i].m.Answer[idx + 1]>>,
                                        !.pc = "loop", !.qi = @ + 1])
               /\ UNCHANGED crashed
          ELSE /\ Set(i, [inv[i] EXCEPT !.pc = "panic_index"])
               /\ crashed' = TRUE
    /\ UNCHANGED <<cfgvars, choiceMap, started, replies>>

\* Lines 97-109: the authority record, the authoritative flag, w.WriteMsg(m).
\* m.Question[0] of a message without question is a run-time panic.
Finish(i) ==
    /\ ~crashed
    /\ inv[i].pc = "loop"
    /\ inv[i].qi > Len(inv[i].m.Question)
    /\ IF Len(authority) > 0 /\ Len(inv[i].m.Question) = 0
       THEN /\ Set(i, [inv[i] EXCEPT !.pc = "panic_question"])
            /\ crashed' = TRUE
            /\ UNCHANGED replies
       ELSE LET m == [inv[i].m EXCEPT
                         !.Ns = @ \o AuthorityNs(inv[i].m.Question, authority),
                         !.Authoritative = TRUE]
            IN /\ Set(i, [inv[i] EXCEPT !.m = m, !.pc = "done"])
               /\ replies' = Append(replies, Sent(i, m, inv[i].waited))
               /\ UNCHANGED crashed
    /\ UNCHANGED <<cfgvars, choiceMap, started>>

\* Two goroutines are inside a map operation at once and one of them writes:
\* a data race on choiceMap.
MapRace ==
    \E i, j \in Slots : i # j /\ InMap(i) /\ InMap(j) /\ (MapWriting(i) \/ MapWriting(j))

\* The Go runtime may detect the race and throw ("concurrent map writes",
\* "concurrent map read and map write"), which ends the process.
Fatal ==
    /\ ~crashed
    /\ MapRace
    /\ crashed' = TRUE
    /\ UNCHANGED <<cfgvars, choiceMap, inv, started, replies>>

\* The steps of invocation i after its start.
Step(i) ==
    \/ BeginQuestion(i)
    \/ Wake(i)
    \/ CheckBegin(i)
    \/ CheckEnd(i)
    \/ InsertBegin(i)
    \/ InsertEnd(i)
    \/ IncrBegin(i)
    \/ IncrEnd(i)
    \/ ReadBegin(i)
    \/ ReadEnd(i)
    \/ Finish(i)

\* No invocation is running.
Quiet == \A i \in Slots : inv[i].pc \in {"idle", "done"}

(***************************************************************************)
(* Spec: the messages are handled one after the other (each is dispatched  *)
(* after the reply to the one before), under every configuration.          *)
(***************************************************************************)
SeqStart ==
    /\ started < MaxQueries
    /\ Quiet
    /\ \E msg \in Messages : Start(1, msg)

Next ==
    \/ SeqStart
    \/ Tick
    \/ Step(1)

Spec == Init /\ [][Next]_vars

(***************************************************************************)
(* AltSpec: alternation enabled, A and AAAA questions one after the other. *)
(***************************************************************************)
AltInit == InitWith(AltConfigs)

AltStart ==
    /\ started < MaxAltQueries
    /\ Quiet
    /\ \E msg \in AddressMessages : Start(1, msg)

AltNext ==
    \/ AltStart
    \/ Step(1)

AltSpec == AltInit /\ [][AltNext]_vars

(***************************************************************************)
(* ConcSpec: the server runs every handler in its own goroutine; up to     *)
(* MaxInvocations of them overlap.                                         *)
(***************************************************************************)
ConcInit == InitWith(ConcConfigs)

ConcStart ==
    /\ started < MaxInvocations
    /\ \E msg \in AddressMessages : Start(started + 1, msg)

ConcNext ==
    \/ ConcStart
    \/ Tick
    \/ Fatal
    \/ \E i \in Slots : Step(i)

ConcSpec == ConcInit /\ [][ConcNext]_vars

(***************************************************************************)
(* Properties.                                                             *)
(***************************************************************************)
Ended(i) == inv[i].pc \in {"done", "panic_index", "panic_question"}

\* A standard query with the single question (n, t).
IsQuery(msg, n, t) == msg = Msg(OpcodeQuery, <<Q(n, t)>>)

\* The replies sent so far that answer message number s.
RepliesTo(s) == {k \in 1..Len(replies) : replies[k].seq = s}

\* The first k replies all answer a direct A query for n.
AllDirectA(k, n) ==
    /\ ~HasCnamePrefix(n)
    /\ \A j \in 1..k : IsQuery(replies[j].r, n, "A")

\* Alternation is enabled and the A set is exactly two valid addresses.
TwoValidA ==
    /\ alternateRecords
    /\ Len(records.A) = 2
    /\ \A k \in 1..2 : records.A[k] \in IPv4Literals

C2_LeadingCname ==
    \A k \in 1..Len(replies) :
        LET msg == replies[k].r IN
        (/\ msg.Opcode = OpcodeQuery
         /\ Len(msg.Question) > 0
         /\ HasCnamePrefix(msg.Question[1].Name))
        => /\ Len(replies[k].m.Answer) > 0
           /\ replies[k].m.Answer[1] =
                 RR(msg.Question[1].Name, "CNAME", "", Tail(msg.Question[1].Name))

\* C3: with alternation enabled no invocation fails on the index into the
\* answer list, and when fewer than two records were built for a query the
\* reply carries exactly these records.
C3_NoIndexPanic ==
    /\ \A i \in Slots : inv[i].pc # "panic_index"
    /\ \A k \in 1..Len(replies) : \A n \in Names : \A t \in {"A", "AAAA"} :
         LET built == CnameAnswer(n) \o
                      BuildAnswers(TrimCnamePrefix(n), t,
                                   SelectAnswers(records, HasCnamePrefix(n), t))
         IN (alternateRecords /\ IsQuery(replies[k].r, n, t) /\ Len(built) < 2)
            => replies[k].m.Answer = built

\* C4: an invocation that has ended has sent exactly one reply, and no
\* invocation ever sends more than one.
C4_ExactlyOneReply ==
    /\ \A i \in Slots : Ended(i) => Cardinality(RepliesTo(inv[i].seq)) = 1
    /\ \A s \in 1..started : Cardinality(RepliesTo(s)) <= 1

\* C5: no two invocations are inside an operation on choiceMap at the same
\* time with one of them writing.
C5_NoMapRace == ~MapRace

\* The configured delay of a query type.
DelayOf(t) == IF t = "A" THEN aDelay ELSE IF t = "AAAA" THEN aaaaDelay ELSE 0

\* C6: a reply is sent only after, for each A (resp. AAAA) question of its
\* query, the invocation has been blocked for the configured A (resp. AAAA)
\* delay; a delay of zero blocks it for no time.
C6_DelayElapsed ==
    \A k \in 1..Len(replies) :
        LET msg == replies[k].r
            waited == replies[k].waited
        IN msg.Opcode = OpcodeQuery =>
             \A j \in 1..Len(msg.Question) :
                msg.Question[j].Qtype \in {"A", "AAAA"} =>
                   /\ j <= Len(waited)
                   /\ waited[j] >= DelayOf(msg.Question[j].Qtype)
                   /\ DelayOf(msg.Question[j].Qtype) = 0 => waited[j] = 0

\* An A query has been answered under a positive A delay.
C6_Witness ==
    \E k \in 1..Len(replies) : \E n \in Names :
        /\ aDelay > 0
        /\ IsQuery(replies[k].r, n, "A")
        /\ replies[k].waited = <<aDelay>>

\* Invocation i is blocked in time.Sleep.
Sleeping(i) == inv[i].pc = "sleep" /\ inv[i].slept < inv[i].delay

\* Invocation j has started, has not ended and is not blocked in time.Sleep.
Runnable(j) == ~Ended(j) /\ inv[j].pc # "idle" /\ ~Sleeping(j)

\* C7: while an invocation is blocked in its delay, every other invocation
\* that is not itself blocked in a delay can take its next step, and a new
\* message can be dispatched.
C7_SleepBlocksNoOne ==
    \A i \in Slots :
        (~crashed /\ Sleeping(i)) =>
            /\ \A j \in Slots \ {i} : Runnable(j) => ENABLED Step(j)
            /\ started < MaxInvocations => ENABLED ConcStart

\* With a positive A delay and no AAAA delay, the AAAA query that arrived
\* second has been answered while the A query that arrived first still sleeps.
C7_Witness ==
    /\ aDelay > 0
    /\ aaaaDelay = 0
    /\ \E i \in Slots : \E n \in Names :
        /\ inv[i].seq = 1
        /\ IsQuery(inv[i].r, n, "A")
        /\ Sleeping(i)
    /\ Len(replies) = 1
    /\ replies[1].seq = 2
    /\ \E n \in Names : IsQuery(replies[1].r, n, "AAAA")

\* The literals of a configured set that are addresses of the type's family.
IsOfFamily(t, ip) == IF t = "A" THEN ip \in IPv4Literals ELSE ip \in IPv6Literals
ValidFor(t, set) == SelectSeq(set, LAMBDA ip : IsOfFamily(t, ip))

\* One record of type t owned by owner per address, in order.
AddrRecords(owner, t, addrs) ==
    [k \in 1..Len(addrs) |-> RR(owner, t, addrs[k], <<>>)]

\* The address records of an answer section.
AddrPart(answer) == SelectSeq(answer, LAMBDA rr : rr.Rrtype \in {"A", "AAAA"})

\* C8: with alternation disabled and a non-empty A set, the answer section of
\* the reply to a direct single-question A query is exactly one A record per
\* valid configured address, in the configured order, owned by the queried
\* name.
C8_ValidInOrder ==
    \A k \in 1..Len(replies) : \A n \in Names :
        (/\ ~alternateRecords
         /\ Len(records.A) > 0
         /\ ~HasCnamePrefix(n)
         /\ IsQuery(replies[k].r, n, "A"))
        => replies[k].m.Answer = AddrRecords(n, "A", ValidFor("A", records.A))

\* A direct A query has been answered from a set with an invalid entry between
\* two valid ones.
C8_Witness ==
    \E k \in 1..Len(replies) :
        /\ ~alternateRecords
        /\ records.A = <<"1.1.1.1", NotAnIP, "2.2.2.2">>
        /\ IsQuery(replies[k].r, <<"x">>, "A")
        /\ Len(replies[k].m.Answer) = 2

\* C9: the address records of the reply to a single-question A (resp. AAAA)
\* query are built from the CNAME-targeted set when the name has the prefix
\* and that set is non-empty, from the plain set otherwise, and are owned by
\* the name without the prefix; with alternation disabled they are all the
\* valid addresses of that set.
C9_SetSelection ==
    \A k \in 1..Len(replies) : \A n \in Names : \A t \in {"A", "AAAA"} :
        IsQuery(replies[k].r, n, t) =>
            LET prefixed == HasCnamePrefix(n)
                targeted == IF t = "A" THEN records.CNAMEA ELSE records.CNAMEAAAA
                plain == IF t = "A" THEN records.A ELSE records.AAAA
                used == IF prefixed /\ Len(targeted) > 0 THEN targeted ELSE plain
                owner == IF prefixed THEN Tail(n) ELSE n
                expected == AddrRecords(owner, t, ValidFor(t, used))
                got == AddrPart(replies[k].m.Answer)
            IN /\ \A x \in 1..Len(got) : \E y \in 1..Len(expected) : got[x] = expected[y]
               /\ ~alternateRecords => got = expected

\* A prefixed A query has been answered from the CNAME-targeted A set although
\* the plain A set is not empty.
C9_Witness ==
    \E k \in 1..Len(replies) :
        /\ ~alternateRecords
        /\ Len(records.A) > 0
        /\ Len(records.CNAMEA) > 0
        /\ IsQuery(replies[k].r, <<CnameLabel, "x">>, "A")
        /\ AddrPart(replies[k].m.Answer) = AddrRecords(<<"x">>, "A", records.CNAMEA)

\* C10: no reply carries an address record of an invalid literal, and an
\* invalid literal in the answer set of a question never ends the invocation
\* without a reply.
C10_InvalidSkipped ==
    /\ \A k \in 1..Len(replies) : \A x \in 1..Len(replies[k].m.Answer) :
         ParseIP(replies[k].m.Answer[x].Addr) = "nil"
            => replies[k].m.Answer[x].Rrtype \notin {"A", "AAAA"}
    /\ \A i \in Slots :
         (Ended(i) /\ \E x \in 1..Len(inv[i].answers) : ParseIP(inv[i].answers[x]) = "nil")
            => Cardinality(RepliesTo(inv[i].seq)) = 1

\* C11, as stated: with an authority configured, every reply sent carries
\* exactly one NS record, naming that host for the first question's name,
\* whatever the opcode.
C11_NsOnEveryReply ==
    \A k \in 1..Len(replies) :
        Len(authority) > 0 =>
            /\ Len(replies[k].r.Question) > 0
            /\ replies[k].m.Ns =
                  <<RR(replies[k].r.Question[1].Name, "NS", "", authority)>>

\* C11, amended: with an authority configured, every reply sent to a message
\* of the standard query opcode carries exactly one NS record, naming that
\* host for the first question's name.
C11_NsOnQueryReplies ==
    \A k \in 1..Len(replies) :
        (Len(authority) > 0 /\ replies[k].r.Opcode = OpcodeQuery) =>
            /\ Len(replies[k].r.Question) > 0
            /\ replies[k].m.Ns =
                  <<RR(replies[k].r.Question[1].Name, "NS", "", authority)>>

\* With an authority configured, a query of two questions with different
\* names and a query of another type have been answered.
C11_Witness ==
    /\ Len(authority) > 0
    /\ Len(replies) = 2
    /\ Len(replies[1].r.Question) = 2
    /\ replies[1].m.Ns = <<RR(<<CnameLabel, "x">>, "NS", "", authority)>>
    /\ IsQuery(replies[2].r, <<"x">>, "MX")

\* The reply to a non-query message: nothing in the answer and authority
\* sections, not authoritative, sent without any sleep.
EmptyReply(k) ==
    /\ replies[k].m.Answer = <<>>
    /\ replies[k].m.Ns = <<>>
    /\ ~replies[k].m.Authoritative
    /\ replies[k].waited = <<>>

\* The step dispatches a non-query message to invocation i.
NonQueryStep(i) ==
    /\ inv'[i].seq = started + 1
    /\ started' = started + 1
    /\ inv'[i].r.Opcode # OpcodeQuery

\* C12: a message whose opcode is not the standard query is answered in the
\* step that receives it, without a crash and without a change of choiceMap,
\* by a reply with empty answer and authority sections and the authoritative
\* flag unset.
C12_NonQueryReply ==
    /\ [](\A k \in 1..Len(replies) : replies[k].r.Opcode # OpcodeQuery => EmptyReply(k))
    /\ [][\A i \in Slots : NonQueryStep(i) =>
             /\ choiceMap' = choiceMap
             /\ ~crashed'
             /\ inv'[i].pc = "done"
             /\ Len(replies') = Len(replies) + 1
             /\ replies'[Len(replies')].seq = started + 1]_vars

\* A non-query message has been answered after an alternating query has
\* created an entry of choiceMap.
C12_Witness ==
    /\ Len(replies) = 2
    /\ replies[2].r.Opcode # OpcodeQuery
    /\ Len(authority) > 0
    /\ choiceMap # EmptyMap

\* The query types the handler serves no address for.
OtherQtypes == Qtypes \ {"A", "AAAA"}

\* C13, as stated: the reply to a standard query of a type other than A and
\* AAAA is authoritative, has an empty answer section and is sent without
\* delay, whatever the name.
C13_OtherTypeEmpty ==
    \A k \in 1..Len(replies) : \A n \in Names : \A t \in OtherQtypes :
        IsQuery(replies[k].r, n, t) =>
            /\ replies[k].m.Authoritative
            /\ replies[k].m.Answer = <<>>
            /\ replies[k].waited = <<0>>

\* C13, amended: the reply to a standard query of a type other than A and
\* AAAA is authoritative, is sent without delay and carries no address
\* record: its answer section is empty for a name without the "cname."
\* prefix and is the CNAME record alone for a name with it.
C13_OtherTypeNoAddress ==
    \A k \in 1..Len(replies) : \A n \in Names : \A t \in OtherQtypes :
        IsQuery(replies[k].r, n, t) =>
            /\ replies[k].m.Authoritative
            /\ replies[k].m.Answer =
                  IF HasCnamePrefix(n) THEN <<RR(n, "CNAME", "", Tail(n))>> ELSE <<>>
            /\ replies[k].waited = <<0>>

\* Under positive delays and alternation, a prefixed and a direct query of
\* another type have been answered.
C13_Witness ==
    /\ aDelay > 0
    /\ aaaaDelay > 0
    /\ alternateRecords
    /\ Len(records.A) > 1
    /\ Len(replies) = 2
    /\ IsQuery(replies[1].r, <<CnameLabel, "x">>, "MX")
    /\ IsQuery(replies[2].r, <<"x">>, "MX")

\* C14: in every step, under overlapping invocations too, no entry of
\* choiceMap is removed, no counter decreases, and an entry is created or
\* changed only by an invocation handling a question of exactly that name.
C14_MapOnlyGrows ==
    [][/\ \A n \in DOMAIN choiceMap :
            /\ n \in DOMAIN choiceMap'
            /\ choiceMap'[n] >= choiceMap[n]
       /\ \A n \in DOMAIN choiceMap' :
            (n \notin DOMAIN choiceMap \/ choiceMap'[n] # choiceMap[n]) =>
                \E i \in Slots :
                    /\ MapWriting(i)
                    /\ inv'[i] # inv[i]
                    /\ CurQ(i).Name = n]_vars

\* The valid addresses of the set a question (n, t) is answered from.
UsedValid(n, t) ==
    LET targeted == IF t = "A" THEN records.CNAMEA ELSE records.CNAMEAAAA
        plain == IF t = "A" THEN records.A ELSE records.AAAA
    IN ValidFor(t, IF HasCnamePrefix(n) /\ Len(targeted) > 0 THEN targeted ELSE plain)

\* C15: with alternation enabled and at least two address records built for
\* a single-question A or AAAA query, the answer section of the reply is one
\* record, the address record of the first or of the second valid address of
\* the selected set.
C15_OneOfFirstTwo ==
    \A k \in 1..Len(replies) : \A n \in Names : \A t \in {"A", "AAAA"} :
        (alternateRecords /\ IsQuery(replies[k].r, n, t) /\ Len(UsedValid(n, t)) >= 2)
        => \E x \in 1..2 :
              replies[k].m.Answer = <<RR(TrimCnamePrefix(n), t, UsedValid(n, t)[x], <<>>)>>

\* The configured set a question (n, t) is answered from.
UsedSet(n, t) ==
    LET targeted == IF t = "A" THEN records.CNAMEA ELSE records.CNAMEAAAA
        plain == IF t = "A" THEN records.A ELSE records.AAAA
    IN IF t \notin {"A", "AAAA"} THEN <<>>
       ELSE IF HasCnamePrefix(n) /\ Len(targeted) > 0 THEN targeted
       ELSE plain

\* C16: no step changes the configuration; choiceMap changes only when
\* alternation is enabled, and only in a step of an invocation whose current
\* question has a non-empty configured answer set.
C16_Frame ==
    [][/\ UNCHANGED cfgvars
       /\ choiceMap' # choiceMap =>
            /\ alternateRecords
            /\ \E i \in Slots :
                 /\ inv'[i] # inv[i]
                 /\ inv[i].qi \in 1..Len(inv[i].r.Question)
                 /\ Len(UsedSet(CurQ(i).Name, CurQ(i).Qtype)) > 0]_vars

\* With alternation disabled, two A queries have been answered with two
\* records each and choiceMap is still empty.
C16_Witness ==
    /\ ~alternateRecords
    /\ Len(replies) = 2
    /\ \A k \in 1..2 :
         /\ IsQuery(replies[k].r, <<"x">>, "A")
         /\ Len(replies[k].m.Answer) = 2
    /\ choiceMap = EmptyMap

\* The number of replies sent so far to questions for the name n.
AnsweredFor(n) ==
    Cardinality({k \in 1..Len(replies) :
                    /\ Len(replies[k].r.Question) = 1
                    /\ replies[k].r.Question[1].Name = n
                    /\ replies[k].r.Question[1].Qtype \in {"A", "AAAA"}})

\* C17: under sequential execution with alternation enabled and non-empty A
\* and AAAA sets, between two invocations the counter of a name is the number
\* of A and AAAA questions answered for it, and two A queries for a name with
\* one AAAA query for it in between get the same answer.
C17_KeyedByNameOnly ==
    (alternateRecords /\ Len(records.A) > 0 /\ Len(records.AAAA) > 0) =>
        /\ Quiet => \A n \in Names : MapLoad(choiceMap, n) = AnsweredFor(n)
        /\ \A n \in Names : \A k \in 1..(Len(replies) - 2) :
             (/\ IsQuery(replies[k].r, n, "A")
              /\ IsQuery(replies[k + 1].r, n, "AAAA")
              /\ IsQuery(replies[k + 2].r, n, "A"))
             => replies[k].m.Answer = replies[k + 2].m.Answer

\* An A, an AAAA and an A query for one name have been answered in this
\* order, and the counter of the name is three.
C17_Witness ==
    /\ alternateRecords
    /\ Len(replies) = 3
    /\ IsQuery(replies[1].r, <<"x">>, "A")
    /\ IsQuery(replies[2].r, <<"x">>, "AAAA")
    /\ IsQuery(replies[3].r, <<"x">>, "A")
    /\ MapLoad(choiceMap, <<"x">>) = 3
    /\ replies[1].m.Answer = replies[3].m.Answer

\* Invocation i is at or inside one of the map operations of lines 88-92.
AtMap(i) ==
    inv[i].pc \in {"chk", "chk_in", "ins", "ins_in", "inc", "inc_in", "rd", "rd_in"}

\* The records lines 38-85 build for the question (n, t).
BuiltFor(n, t) ==
    (IF HasCnamePrefix(n) THEN <<RR(n, "CNAME", "", Tail(n))>> ELSE <<>>)
    \o AddrRecords(TrimCnamePrefix(n), t, UsedValid(n, t))

\* C18: an invocation reaches the map operations of the alternation only once
\* its delay has fully elapsed; so when only two queries have been dispatched,
\* both for one name, and the later one has been answered while the earlier
\* one is still in its sleep, the later one has taken the first counter value
\* (counter 1, the record at index 1).
C18_CounterAfterDelay ==
    /\ \A i \in Slots : AtMap(i) => inv[i].slept >= inv[i].delay
    /\ \A i \in Slots : \A n \in Names : \A t, u \in {"A", "AAAA"} :
         (/\ alternateRecords
          /\ started = 2
          /\ inv[i].seq = 1
          /\ inv[i].pc = "sleep"
          /\ IsQuery(inv[i].r, n, t)
          /\ Len(replies) = 1
          /\ replies[1].seq = 2
          /\ IsQuery(replies[1].r, n, u))
         => /\ MapLoad(choiceMap, n) = 1
            /\ replies[1].m.Answer = <<BuiltFor(n, u)[2]>>

\* The A query for x arrived first and is still blocked in its delay; the
\* AAAA query for x arrived second and has been answered from counter 1.
C18_Witness ==
    /\ alternateRecords
    /\ \E i \in Slots :
         /\ inv[i].seq = 1
         /\ IsQuery(inv[i].r, <<"x">>, "A")
         /\ Sleeping(i)
    /\ Len(replies) = 1
    /\ replies[1].seq = 2
    /\ IsQuery(replies[1].r, <<"x">>, "AAAA")
    /\ MapLoad(choiceMap, <<"x">>) = 1
    /\ replies[1].m.Answer = <<RR(<<"x">>, "AAAA", "::2", <<>>)>>

====
